---- MODULE Spec2Model ----
(***************************************************************************)
(* State-machine model of the Sigma Math chat client: the App component    *)
(* (session store, persistence effect, startNewChat, deleteChat,           *)
(* handleFileChange, sendMessage) together with the Sidebar's in-place    *)
(* sort of the session list.  One action per event handler; every action   *)
(* ends with the re-render that React performs after the handler's state   *)
(* updates (Sidebar sort, then the persistence effect).                    *)
(***************************************************************************)
EXTENDS Integers, Sequences, FiniteSets, TLC

VARIABLES
    status,         \* "booting" | "running" | "crashed" (render threw, tree unmounted)
    storage,        \* localStorage item 'sigma_math_chats'
    chats,          \* useState<ChatSession[]>
    currentChatId,  \* useState<string | null>
    inputText,      \* useState('')
    attachments,    \* useState<Attachment[]>([])
    isTyping,       \* useState(false)
    inflight,       \* sendMessage invocations suspended at the await
    clock,          \* Date.now()
    alerts,         \* alert() dialogs shown by the last handleFileChange
    generate,       \* a generateMathResponse invocation followed on its own
    speech,         \* speakText invocations (the Voice button)
    view            \* a MathMarkdown component: its content and what it renders

\* The state outside the App component's hooks.
services == <<generate, speech, view>>

vars == <<status, storage, chats, currentChatId, inputText, attachments,
          isTyping, inflight, clock, alerts, services>>

-----------------------------------------------------------------------------
(* Bounds of the model *)

MaxClock == 2
MaxChats == 3
MaxExchanges == 2
MaxAttachments == 1
MaxLiveChats == 2
MaxLiveExchanges == 1
MaxBatch == 3
MaxIngested == 3
MaxHistory == 2
MaxParts == 2
MaxSent == 2
MaxSpeech == 1
MaxSpeechChats == 1
MaxContent == 4

-----------------------------------------------------------------------------
(* Values *)

Null == "null"

Undefined == "undefined"

TitleLength == 35

FileSizeLimit == 10485760

NewChatTitle == "New Calculation"

MultimodalTitle == "Multimodal Query"

ErrorContent == "I encountered an error processing your mathematical query. Please ensure your expression is valid and try again."

\* A text longer than TitleLength characters (36).
LongText == "integrate sin(x)/x from 0 to inf now"

Texts == {LongText}

\* Texts that are empty or white space only.
BlankTexts == {"", " \n "}

SmallFile == [name |-> "a.png", type |-> "image/png", size |-> 1048576, payload |-> "QUJD"]

BigFile == [name |-> "b.pdf", type |-> "application/pdf", size |-> 11534336, payload |-> "REVG"]

FileLists == {<<SmallFile>>}

\* A file of exactly the size limit, and an empty file.
LimitFile == [name |-> "c.png", type |-> "image/png", size |-> 10485760, payload |-> "R0hJ"]

EmptyFile == [name |-> "e.txt", type |-> "text/plain", size |-> 0, payload |-> ""]

Files == {SmallFile, LimitFile, EmptyFile, BigFile}

\* The files of one change event of the file input: any selection of at most
\* MaxBatch files, in any order.
FileBatches ==
    UNION {[1..n -> Files] : n \in 0..MaxBatch}

\* Results generateMathResponse can resolve with.
Responses == {[text |-> "x=1", thinking |-> "steps"]}

-----------------------------------------------------------------------------
(* String helpers *)

\* The white space String.prototype.trim removes.
IsSpace(c) == c \in {" ", "\t", "\n", "\r"}

RECURSIVE TrimStart(_)
TrimStart(s) ==
    IF Len(s) > 0 /\ IsSpace(SubSeq(s, 1, 1)) THEN TrimStart(SubSeq(s, 2, Len(s))) ELSE s

RECURSIVE TrimEnd(_)
TrimEnd(s) ==
    IF Len(s) > 0 /\ IsSpace(SubSeq(s, Len(s), Len(s)))
    THEN TrimEnd(SubSeq(s, 1, Len(s) - 1)) ELSE s

Trim(s) == TrimEnd(TrimStart(s))

\* String.prototype.slice(0, n)
Slice(s, n) == SubSeq(s, 1, IF Len(s) < n THEN Len(s) ELSE n)

\* Date.now().toString()
DateNowString(t) == ToString(t)

-----------------------------------------------------------------------------
(* Sidebar: chats.sort((a,b) => b.lastModified - a.lastModified), in place  *)
(* on the state array, stable.                                             *)

RECURSIVE InsertByLastModified(_, _)
InsertByLastModified(c, sorted) ==
    IF sorted = <<>> THEN <<c>>
    ELSE IF Head(sorted).lastModified >= c.lastModified
         THEN <<Head(sorted)>> \o InsertByLastModified(c, Tail(sorted))
         ELSE <<c>> \o sorted

RECURSIVE SortFrom(_, _)
SortFrom(rest, sorted) ==
    IF rest = <<>> THEN sorted
    ELSE SortFrom(Tail(rest), InsertByLastModified(Head(rest), sorted))

SidebarSortIdentity(cs) == cs

SidebarSort(cs) == SortFrom(cs, <<>>)

-----------------------------------------------------------------------------
(* Persistence: JSON.stringify(chats) / JSON.parse(saved)                  *)

\* JSON.stringify keeps every own property whose value is not undefined.
JsonOfMessage(m) ==
    [k \in {f \in DOMAIN m : f # "thinking" \/ m.thinking # Undefined} |-> m[k]]

JsonOfSession(c) ==
    [id |-> c.id, title |-> c.title,
     messages |-> [i \in 1..Len(c.messages) |-> JsonOfMessage(c.messages[i])],
     createdAt |-> c.createdAt, lastModified |-> c.lastModified]

JsonStringifyStale(cs) == storage

JsonStringify(cs) ==
    [tag |-> "json", type |-> "list", items |-> [i \in 1..Len(cs) |-> JsonOfSession(cs[i])]]

\* localStorage.getItem returns null (absent) or a string; '' is falsy too.
SavedIsTruthy(s) == s.tag \notin {"absent", "empty"}

JsonParseThrows(s) == s.tag = "unparseable"

IsSessionList(s) == s.tag = "json" /\ s.type = "list"

\* const [chats] = useState(() => saved ? JSON.parse(saved) : [])
InitialChats(s) == IF SavedIsTruthy(s) THEN s.items ELSE <<>>

\* parsed.length > 0 ? parsed[0].id : null
InitialCurrentChatId(s) ==
    IF SavedIsTruthy(s) /\ Len(s.items) > 0 THEN s.items[1].id ELSE Null

\* The initialisers or the first render throw: JSON.parse on unparseable text,
\* parsed.length on null, chats.find on a value that is not an array.
MountThrows(s) == SavedIsTruthy(s) /\ (JsonParseThrows(s) \/ ~IsSessionList(s))

-----------------------------------------------------------------------------
(* Initial state: the page is about to mount; durable storage holds         *)
(* nothing, something that is not a session list, or a list the program     *)
(* wrote in an earlier run.                                                *)

StoredEmptySession ==
    [id |-> "0", title |-> NewChatTitle, messages |-> <<>>, createdAt |-> 0, lastModified |-> 0]

StoredStorages ==
    { [tag |-> "absent"], [tag |-> "empty"], [tag |-> "unparseable"],
      [tag |-> "json", type |-> "null"], [tag |-> "json", type |-> "object"],
      [tag |-> "json", type |-> "list", items |-> <<>>],
      [tag |-> "json", type |-> "list", items |-> <<StoredEmptySession>>] }

\* No generateMathResponse is being followed; no MathMarkdown is mounted.
NotCalled == [pc |-> "idle"]

NotRendered == [pc |-> "unmounted"]

Init ==
    /\ status = "booting"
    /\ storage \in StoredStorages
    /\ chats = <<>>
    /\ currentChatId = Null
    /\ inputText = ""
    /\ attachments = <<>>
    /\ isTyping = FALSE
    /\ inflight = <<>>
    /\ clock = 1
    /\ alerts = 0
    /\ generate = NotCalled
    /\ speech = <<>>
    /\ view = NotRendered

-----------------------------------------------------------------------------
(* Re-render after a handler: Sidebar sorts the state array in place, then  *)
(* the effect on [chats, theme] writes it to localStorage.                 *)

Rendered(cs) == IF Len(cs) = 0 THEN cs ELSE SidebarSort(cs)

Commit(cs) ==
    /\ chats' = Rendered(cs)
    /\ storage' = JsonStringify(Rendered(cs))

\* App(): the useState initialisers, the first render, the first effect.
Mount ==
    /\ status = "booting"
    /\ IF MountThrows(storage)
       THEN /\ status' = "crashed"
            /\ UNCHANGED <<storage, chats, currentChatId, alerts, services>>
       ELSE /\ status' = "running"
            /\ currentChatId' = InitialCurrentChatId(storage)
            /\ Commit(InitialChats(storage))
    /\ UNCHANGED <<inputText, attachments, isTyping, inflight, clock, alerts, services>>

\* Time passes between two events.
Tick ==
    /\ status = "running"
    /\ clock < MaxClock
    /\ clock' = clock + 1
    /\ UNCHANGED <<status, storage, chats, currentChatId, inputText, attachments,
                   isTyping, inflight, alerts, services>>

\* textarea onChange
SetInputText(t) ==
    /\ status = "running"
    /\ inputText' = t
    /\ UNCHANGED <<status, storage, chats, currentChatId, attachments, isTyping,
                   inflight, clock, alerts, services>>

\* handleFileChange: files over the limit are skipped, the rest are read as
\* data URLs and appended in order by one functional state update.
DataUrl(f) == "data:" \o f.type \o ";base64," \o f.payload

\* break instead of continue: the loop stops at the first oversized file.
RECURSIVE ReadFilesUntilOversized(_)
ReadFilesUntilOversized(files) ==
    IF files = <<>> THEN <<>>
    ELSE IF Head(files).size > FileSizeLimit
         THEN <<>>
         ELSE <<[name |-> Head(files).name, type |-> Head(files).type,
                 data |-> DataUrl(Head(files))]>> \o ReadFilesUntilOversized(Tail(files))

RECURSIVE ReadFiles(_)
ReadFiles(files) ==
    IF files = <<>> THEN <<>>
    ELSE IF Head(files).size > FileSizeLimit
         THEN ReadFiles(Tail(files))
         ELSE <<[name |-> Head(files).name, type |-> Head(files).type,
                 data |-> DataUrl(Head(files))]>> \o ReadFiles(Tail(files))

\* alert("File too large. Max 10MB per file.") once for every skipped file.
RECURSIVE Alerts(_)
Alerts(files) ==
    IF files = <<>> THEN 0
    ELSE (IF Head(files).size > FileSizeLimit THEN 1 ELSE 0) + Alerts(Tail(files))

HandleFileChange(files) ==
    /\ status = "running"
    /\ attachments' = attachments \o ReadFiles(files)
    /\ alerts' = Alerts(files)
    /\ UNCHANGED <<status, storage, chats, currentChatId, inputText, isTyping,
                   inflight, clock, services>>

\* "Clear All" button
ClearAttachments ==
    /\ status = "running"
    /\ attachments # <<>>
    /\ attachments' = <<>>
    /\ UNCHANGED <<status, storage, chats, currentChatId, inputText, isTyping,
                   inflight, clock, alerts, services>>

-----------------------------------------------------------------------------
(* Session handlers *)

NewChat(id, title, t) ==
    [id |-> id, title |-> title, messages |-> <<>>, createdAt |-> t, lastModified |-> t]

StartNewChat ==
    /\ status = "running"
    /\ Len(chats) < MaxChats
    /\ Commit(<<NewChat(DateNowString(clock), NewChatTitle, clock)>> \o chats)
    /\ currentChatId' = DateNowString(clock)
    /\ UNCHANGED <<status, inputText, attachments, isTyping, inflight, clock, alerts, services>>

\* prev.filter(c => c.id !== id)
WithoutChat(cs, id) == SelectSeq(cs, LAMBDA c : c.id # id)

CurrentAfterDeleteKept(cs, cur, id) == cur

\* if (currentChatId === id) setCurrentChatId(remaining.length > 0 ? remaining[0].id : null)
CurrentAfterDelete(cs, cur, id) ==
    IF cur = id
    THEN IF Len(WithoutChat(cs, id)) > 0 THEN WithoutChat(cs, id)[1].id ELSE Null
    ELSE cur

DeleteChat(id) ==
    /\ status = "running"
    /\ Commit(WithoutChat(chats, id))
    /\ currentChatId' = CurrentAfterDelete(chats, currentChatId, id)
    /\ UNCHANGED <<status, inputText, attachments, isTyping, inflight, clock, alerts, services>>

\* Sidebar onSelectChat = setCurrentChatId
SelectChat(id) ==
    /\ status = "running"
    /\ currentChatId' = id
    /\ UNCHANGED <<status, storage, chats, inputText, attachments, isTyping,
                   inflight, clock, alerts, services>>

-----------------------------------------------------------------------------
(* sendMessage *)

SubmitRejectedBlankOnly(text, atts, typing) == Trim(text) = "" /\ Len(atts) = 0

SubmitRejectedUntrimmed(text, atts, typing) == (text = "" /\ Len(atts) = 0) \/ typing

\* if (!inputText.trim() && attachments.length === 0) return; if (isTyping) return;
SubmitRejected(text, atts, typing) ==
    (Trim(text) = "" /\ Len(atts) = 0) \/ typing

\* inputText.slice(0, 35) || 'Multimodal Query'
ImplicitTitle(text) ==
    IF Slice(text, TitleLength) # "" THEN Slice(text, TitleLength) ELSE MultimodalTitle

UserMessage(text, atts, t) ==
    [id |-> DateNowString(t), role |-> "user", content |-> text,
     attachments |-> atts, timestamp |-> t]

AssistantMessage(response, t) ==
    [id |-> DateNowString(t + 1), role |-> "assistant", content |-> response.text,
     thinking |-> response.thinking, timestamp |-> t]

ErrorMessage(t) ==
    [id |-> DateNowString(t + 1), role |-> "assistant", content |-> ErrorContent,
     timestamp |-> t]

AppendUserAtHead(cs, id, msg, t) ==
    [i \in 1..Len(cs) |->
        IF cs[i].id = id
        THEN [cs[i] EXCEPT !.messages = <<msg>> \o @, !.lastModified = t]
        ELSE cs[i]]

\* setChats(prev => prev.map(chat => chat.id === activeChatId
\*   ? {...chat, messages: [...chat.messages, userMessage], lastModified: Date.now()} : chat))
AppendUser(cs, id, msg, t) ==
    [i \in 1..Len(cs) |->
        IF cs[i].id = id
        THEN [cs[i] EXCEPT !.messages = Append(@, msg), !.lastModified = t]
        ELSE cs[i]]

\* chats.find(c => c.id === activeChatId)?.messages || []
ChatHistory(cs, id) ==
    IF \E i \in 1..Len(cs) : cs[i].id = id
    THEN cs[CHOOSE i \in 1..Len(cs) :
                cs[i].id = id /\ \A j \in 1..(i - 1) : cs[j].id # id].messages
    ELSE <<>>

\* The success update: append, retitle when the session had no message, touch.
AppendAnswer(cs, id, msg, originalInput, t) ==
    [i \in 1..Len(cs) |->
        IF cs[i].id = id
        THEN [cs[i] EXCEPT !.messages = Append(@, msg),
                           !.title = IF Len(cs[i].messages) = 0
                                     THEN Slice(originalInput, TitleLength) ELSE @,
                           !.lastModified = t]
        ELSE cs[i]]

AppendErrorDropped(cs, id, msg) == cs

\* The catch update: append only.
AppendError(cs, id, msg) ==
    [i \in 1..Len(cs) |->
        IF cs[i].id = id THEN [cs[i] EXCEPT !.messages = Append(@, msg)] ELSE cs[i]]

\* Counting helpers for the bounds of the model and for the properties.
RECURSIVE CountUserMessages(_)
CountUserMessages(cs) ==
    IF cs = <<>> THEN 0
    ELSE Len(SelectSeq(Head(cs).messages, LAMBDA m : m.role = "user"))
            + CountUserMessages(Tail(cs))

RECURSIVE TotalMessages(_)
TotalMessages(cs) ==
    IF cs = <<>> THEN 0 ELSE Len(Head(cs).messages) + TotalMessages(Tail(cs))

\* Bound of the model: the store has room for one more exchange (the user
\* message and its reply, each possibly landing in two sessions of one id).
HasRoom(cs, id) == TotalMessages(cs) + 2 <= 2 * MaxExchanges

SendMessage ==
    /\ status = "running"
    /\ IF SubmitRejected(inputText, attachments, isTyping)
       THEN UNCHANGED vars
       ELSE LET implicit == currentChatId = Null
                activeChatId == IF implicit THEN DateNowString(clock) ELSE currentChatId
                withNew == IF implicit
                           THEN <<NewChat(activeChatId, ImplicitTitle(inputText), clock)>>
                                    \o chats
                           ELSE chats
                userMessage == UserMessage(inputText, attachments, clock)
            IN  /\ implicit => Len(chats) < MaxChats
                /\ HasRoom(withNew, activeChatId)
                /\ Commit(AppendUser(withNew, activeChatId, userMessage, clock))
                /\ currentChatId' = activeChatId
                /\ inputText' = ""
                /\ attachments' = <<>>
                /\ isTyping' = TRUE
                /\ inflight' = Append(inflight,
                        [activeChatId |-> activeChatId,
                         originalInput |-> inputText,
                         originalAttachments |-> attachments,
                         chatHistory |-> ChatHistory(chats, activeChatId),
                         userMessage |-> userMessage,
                         promise |-> [state |-> "pending"]])
                /\ UNCHANGED <<status, clock, alerts, services>>

Settled(i) == SubSeq(inflight, 1, i - 1) \o SubSeq(inflight, i + 1, Len(inflight))

\* ai.models.generateContent settles: generateMathResponse returns a result
\* or rethrows the error (the promise awaited by sendMessage).
Resolve(i, response) ==
    /\ status = "running"
    /\ inflight[i].promise.state = "pending"
    /\ inflight' = [inflight EXCEPT ![i].promise = [state |-> "fulfilled", value |-> response]]
    /\ UNCHANGED <<status, storage, chats, currentChatId, inputText, attachments,
                   isTyping, clock, alerts, services>>

Reject(i) ==
    /\ status = "running"
    /\ inflight[i].promise.state = "pending"
    /\ inflight' = [inflight EXCEPT ![i].promise = [state |-> "rejected"]]
    /\ UNCHANGED <<status, storage, chats, currentChatId, inputText, attachments,
                   isTyping, clock, alerts, services>>

\* sendMessage resumes after a fulfilled await: the rest of the try block,
\* then finally.
Succeed(i) ==
    /\ status = "running"
    /\ inflight[i].promise.state = "fulfilled"
    /\ Commit(AppendAnswer(chats, inflight[i].activeChatId,
                           AssistantMessage(inflight[i].promise.value, clock),
                           inflight[i].originalInput, clock))
    /\ isTyping' = FALSE
    /\ inflight' = Settled(i)
    /\ UNCHANGED <<status, currentChatId, inputText, attachments, clock, alerts, services>>

FailWithoutFinally(i) ==
    /\ status = "running"
    /\ inflight[i].promise.state = "rejected"
    /\ Commit(AppendError(chats, inflight[i].activeChatId, ErrorMessage(clock)))
    /\ inflight' = Settled(i)
    /\ UNCHANGED <<status, currentChatId, inputText, attachments, clock, isTyping, alerts, services>>

\* sendMessage resumes after a rejected await: the catch block, then finally.
Fail(i) ==
    /\ status = "running"
    /\ inflight[i].promise.state = "rejected"
    /\ Commit(AppendError(chats, inflight[i].activeChatId, ErrorMessage(clock)))
    /\ isTyping' = FALSE
    /\ inflight' = Settled(i)
    /\ UNCHANGED <<status, currentChatId, inputText, attachments, clock, alerts, services>>

-----------------------------------------------------------------------------

ChatIds == {chats[i].id : i \in 1..Len(chats)}

Next ==
    \/ Mount
    \/ Tick
    \/ \E t \in Texts : SetInputText(t)
    \/ \E files \in FileLists :
            Len(attachments) + Len(ReadFiles(files)) <= MaxAttachments
                /\ HandleFileChange(files)
    \/ ClearAttachments
    \/ StartNewChat
    \/ \E id \in ChatIds : DeleteChat(id)
    \/ \E id \in ChatIds : SelectChat(id)
    \/ SendMessage
    \/ \E i \in 1..Len(inflight) : \E response \in Responses : Resolve(i, response)
    \/ \E i \in 1..Len(inflight) : Reject(i)
    \/ \E i \in 1..Len(inflight) : Succeed(i)
    \/ \E i \in 1..Len(inflight) : Fail(i)

Spec == Init /\ [][Next]_vars

\* A smaller environment for the liveness check: few sessions, few user
\* messages in the store, no accepted attachment.  It restricts what the
\* user does, never the settling of a call or its continuation.
LiveEnv ==
    /\ Len(chats) <= MaxLiveChats
    /\ CountUserMessages(chats) <= MaxLiveExchanges
    /\ attachments = <<>>

LiveNext == Next /\ LiveEnv'

\* The remote call settles (it returns or fails), and the event loop runs the
\* continuation of a settled await.
FairSpec ==
    /\ Init /\ [][LiveNext]_vars
    /\ WF_vars(\E i \in 1..Len(inflight) :
                  (\E response \in Responses : Resolve(i, response)) \/ Reject(i))
    /\ WF_vars(\E i \in 1..Len(inflight) : Succeed(i) \/ Fail(i))

-----------------------------------------------------------------------------
(* GeminiService.generateMathResponse(history, currentMessage, attachments) *)

\* Values of the reply are modelled as strings: JsTrue is the boolean true
\* (no text of the model is that string), Undefined a missing property.
JsTrue == "true"

\* JavaScript truthiness of such a value.
Truthy(v) == v \notin {"", Undefined}

\* p.f, undefined when the object has no such property
Prop(p, f) == IF f \in DOMAIN p THEN p[f] ELSE Undefined

\* a || b
OrElse(a, b) == IF Truthy(a) THEN a ELSE b

NoSolution == "I couldn't generate a solution. Please try again."

\* s.indexOf(','), 0 when there is none
RECURSIVE CommaFrom(_, _)
CommaFrom(s, i) ==
    IF i > Len(s) THEN 0
    ELSE IF SubSeq(s, i, i) = "," THEN i ELSE CommaFrom(s, i + 1)

\* s.split(',')[1]: what lies between the first comma and the second one (or
\* the end); undefined when s has no comma.
SplitSecond(s) ==
    LET first == CommaFrom(s, 1)
        second == IF first = 0 THEN 0 ELSE CommaFrom(s, first + 1)
    IN  IF first = 0 THEN Undefined
        ELSE SubSeq(s, first + 1, IF second = 0 THEN Len(s) ELSE second - 1)

\* att.data.split(',')[1] || att.data
InlineData(data) == OrElse(SplitSecond(data), data)

\* msg.role === 'assistant' ? 'model' : 'user'
HistoryRole(role) == IF role = "assistant" THEN "model" ELSE "user"

\* contents: history.map(...), then push({role: 'user', parts: currentParts})
Contents(history, currentMessage, atts) ==
    [i \in 1..Len(history) |->
        [role |-> HistoryRole(history[i].role),
         parts |-> <<[text |-> history[i].content]>>]]
    \o <<[role |-> "user",
          parts |-> <<[text |-> currentMessage]>> \o
                    [k \in 1..Len(atts) |->
                        [inlineData |-> [mimeType |-> atts[k].type,
                                         data |-> InlineData(atts[k].data)]]]]>>

\* response.candidates?.[0]?.content?.parts || []
CandidateParts(response) ==
    IF response.candidates = <<>> THEN <<>> ELSE response.candidates[1].content.parts

\* parts.find(p => p[f])?.[f] || ''
FindProp(parts, f) ==
    IF \E i \in 1..Len(parts) : Truthy(Prop(parts[i], f))
    THEN parts[CHOOSE i \in 1..Len(parts) :
                   /\ Truthy(Prop(parts[i], f))
                   /\ \A j \in 1..(i - 1) : ~Truthy(Prop(parts[j], f))][f]
    ELSE ""

GenerateResultPartsOnly(response) ==
    [text |-> OrElse(FindProp(CandidateParts(response), "text"), NoSolution),
     thinking |-> FindProp(CandidateParts(response), "thought")]

\* return { text: textPart || response.text || "I couldn't ...", thinking: thinkingPart }
GenerateResult(response) ==
    [text |-> OrElse(FindProp(CandidateParts(response), "text"),
                     OrElse(response.text, NoSolution)),
     thinking |-> FindProp(CandidateParts(response), "thought")]

\* Inputs: histories of stored messages, the new text, attachments as
\* handleFileChange stores them and one whose data has no data-URI prefix.
HistoryMessages ==
    { [role |-> "user", content |-> "q"], [role |-> "assistant", content |-> "a"],
      [role |-> "system", content |-> "s"] }

Histories == UNION {[1..n -> HistoryMessages] : n \in 0..MaxHistory}

CurrentMessages == {"2+2", ""}

BareAttachment == [name |-> "raw.png", type |-> "image/png", data |-> "QUJD"]

SentAttachments == {ReadFiles(<<SmallFile>>)[1], ReadFiles(<<EmptyFile>>)[1], BareAttachment}

AttachmentLists == UNION {[1..n -> SentAttachments] : n \in 0..MaxSent}

\* Replies of the remote model: at most MaxParts parts, each a plain text, a
\* text flagged thought: true, a reasoning text in thought, or inline data,
\* with or without the top-level text.
ReplyParts ==
    { [text |-> "ans"], [text |-> "why", thought |-> JsTrue], [thought |-> "why"],
      [inlineData |-> "img"] }

Replies ==
    { [candidates |-> c, text |-> t] :
        c \in {<<>>} \cup {<<[content |-> [parts |-> ps]]>> :
                              ps \in UNION {[1..n -> ReplyParts] : n \in 0..MaxParts}},
        t \in {Undefined, "top"} }

\* generateMathResponse is called: it builds contents and calls
\* ai.models.generateContent once, then waits.
GenerateMathResponse(history, currentMessage, atts) ==
    /\ generate.pc = "idle"
    /\ generate' = [pc |-> "awaiting", history |-> history,
                    currentMessage |-> currentMessage, attachments |-> atts,
                    requests |-> <<[contents |-> Contents(history, currentMessage, atts)]>>,
                    call |-> [state |-> "pending"]]
    /\ UNCHANGED <<status, storage, chats, currentChatId, inputText, attachments,
                   isTyping, inflight, clock, alerts, speech, view>>

\* The remote call settles.
GenerateContentResolves(response) ==
    /\ generate.pc = "awaiting" /\ generate.call.state = "pending"
    /\ generate' = [generate EXCEPT !.call = [state |-> "fulfilled", value |-> response]]
    /\ UNCHANGED <<status, storage, chats, currentChatId, inputText, attachments,
                   isTyping, inflight, clock, alerts, speech, view>>

GenerateContentRejects ==
    /\ generate.pc = "awaiting" /\ generate.call.state = "pending"
    /\ generate' = [generate EXCEPT !.call = [state |-> "rejected"]]
    /\ UNCHANGED <<status, storage, chats, currentChatId, inputText, attachments,
                   isTyping, inflight, clock, alerts, speech, view>>

\* The rest of the try block.
GenerateReturns ==
    /\ generate.pc = "awaiting" /\ generate.call.state = "fulfilled"
    /\ generate' = [pc |-> "returned", history |-> generate.history,
                    currentMessage |-> generate.currentMessage,
                    attachments |-> generate.attachments,
                    requests |-> generate.requests, call |-> generate.call,
                    result |-> GenerateResult(generate.call.value)]
    /\ UNCHANGED <<status, storage, chats, currentChatId, inputText, attachments,
                   isTyping, inflight, clock, alerts, speech, view>>

\* A catch block that answers with the fallback text instead of rethrowing.
GenerateSwallows ==
    /\ generate.pc = "awaiting" /\ generate.call.state = "rejected"
    /\ generate' = [pc |-> "returned", history |-> generate.history,
                    currentMessage |-> generate.currentMessage,
                    attachments |-> generate.attachments,
                    requests |-> generate.requests, call |-> generate.call,
                    result |-> [text |-> NoSolution, thinking |-> ""]]
    /\ UNCHANGED <<status, storage, chats, currentChatId, inputText, attachments,
                   isTyping, inflight, clock, alerts, speech, view>>

\* catch (error) { console.error(...); throw error; }
GenerateRethrows ==
    /\ generate.pc = "awaiting" /\ generate.call.state = "rejected"
    /\ generate' = [pc |-> "thrown", history |-> generate.history,
                    currentMessage |-> generate.currentMessage,
                    attachments |-> generate.attachments,
                    requests |-> generate.requests, call |-> generate.call]
    /\ UNCHANGED <<status, storage, chats, currentChatId, inputText, attachments,
                   isTyping, inflight, clock, alerts, speech, view>>

GenerateNext ==
    \/ \E history \in Histories : \E currentMessage \in CurrentMessages :
         \E atts \in AttachmentLists : GenerateMathResponse(history, currentMessage, atts)
    \/ \E response \in Replies : GenerateContentResolves(response)
    \/ GenerateContentRejects
    \/ GenerateReturns
    \/ GenerateRethrows

\* The service on its own, called with any of the inputs above.
ServiceInit == Init /\ storage = [tag |-> "absent"]

GenerateSpec == ServiceInit /\ [][GenerateNext]_vars

-----------------------------------------------------------------------------
(* GeminiService.speakText(text), called by the Voice button of an          *)
(* assistant message of the displayed session.                             *)

Base64Alphabet == "ABCDEFGHIJKLMNOPQRSTUVWXYZabcdefghijklmnopqrstuvwxyz0123456789+/"

IsBase64Char(c) == \E i \in 1..Len(Base64Alphabet) : SubSeq(Base64Alphabet, i, i) = c

Base64Value(c) ==
    (CHOOSE i \in 1..Len(Base64Alphabet) : SubSeq(Base64Alphabet, i, i) = c) - 1

\* atob: one or two trailing '=' of a string whose length is a multiple of
\* four are padding.
Unpadded(s) ==
    IF Len(s) % 4 = 0 /\ Len(s) >= 2 /\ SubSeq(s, Len(s) - 1, Len(s)) = "=="
    THEN SubSeq(s, 1, Len(s) - 2)
    ELSE IF Len(s) % 4 = 0 /\ Len(s) >= 1 /\ SubSeq(s, Len(s), Len(s)) = "="
         THEN SubSeq(s, 1, Len(s) - 1)
         ELSE s

\* atob throws InvalidCharacterError.
AtobThrows(s) ==
    \/ Len(Unpadded(s)) % 4 = 1
    \/ \E i \in 1..Len(Unpadded(s)) : ~IsBase64Char(SubSeq(Unpadded(s), i, i))

\* The char codes of atob(s): six bits per character, eight per byte, the
\* bits left over dropped.
RECURSIVE AtobCodes(_)
AtobCodes(s) ==
    LET v(i) == Base64Value(SubSeq(s, i, i))
    IN  IF Len(s) < 2 THEN <<>>
        ELSE IF Len(s) = 2 THEN <<v(1) * 4 + v(2) \div 16>>
        ELSE IF Len(s) = 3
             THEN <<v(1) * 4 + v(2) \div 16, (v(2) % 16) * 16 + v(3) \div 4>>
             ELSE <<v(1) * 4 + v(2) \div 16, (v(2) % 16) * 16 + v(3) \div 4,
                    (v(3) % 4) * 64 + v(4)>> \o AtobCodes(SubSeq(s, 5, Len(s)))

\* decodeBase64: bytes[i] = binaryString.charCodeAt(i)
DecodeBase64(base64) == AtobCodes(Unpadded(base64))

\* response.candidates?.[0]?.content?.parts?.[0]?.inlineData?.data
AudioData(response) ==
    IF response.candidates = <<>> THEN Undefined
    ELSE IF response.candidates[1].content.parts = <<>> THEN Undefined
    ELSE IF "inlineData" \notin DOMAIN response.candidates[1].content.parts[1]
         THEN Undefined
         ELSE response.candidates[1].content.parts[1].inlineData.data

NoAudio == [kind |-> "null"]

\* The catch block left out: a failed call or a failed decode is thrown on.
SpeakOutcomeUncaught(call) ==
    IF call.state = "rejected" THEN [pc |-> "thrown"]
    ELSE IF Truthy(AudioData(call.value))
         THEN IF AtobThrows(AudioData(call.value))
              THEN [pc |-> "thrown"]
              ELSE [pc |-> "returned",
                    result |-> [kind |-> "bytes",
                                bytes |-> DecodeBase64(AudioData(call.value))]]
         ELSE [pc |-> "returned", result |-> NoAudio]

\* How speakText ends once its call has settled: the decoded bytes, or null
\* (no audio data, or the catch block after a failed call or decode).
SpeakOutcome(call) ==
    IF call.state = "rejected" THEN [pc |-> "returned", result |-> NoAudio]
    ELSE IF Truthy(AudioData(call.value))
         THEN IF AtobThrows(AudioData(call.value))
              THEN [pc |-> "returned", result |-> NoAudio]
              ELSE [pc |-> "returned",
                    result |-> [kind |-> "bytes",
                                bytes |-> DecodeBase64(AudioData(call.value))]]
         ELSE [pc |-> "returned", result |-> NoAudio]

\* Replies of the speech model: no candidate, a part without inline data,
\* audio data (with and without padding), data that is not base64.
AudioPayloads == {"QUJD", "QUI=", "Q"}

SpeechReplies ==
    { [candidates |-> <<>>],
      [candidates |-> <<[content |-> [parts |-> <<[text |-> "no audio"]>>]]>>] }
    \cup { [candidates |-> <<[content |-> [parts |-> <<[inlineData |-> [data |-> d]]>>]]>>] :
             d \in AudioPayloads }

\* const currentChat = chats.find(c => c.id === currentChatId): the messages
\* on display.
DisplayedMessages == ChatHistory(chats, currentChatId)

\* onClick of the Voice button of the n-th displayed message.
SpeakText(n) ==
    /\ status = "running"
    /\ n \in 1..Len(DisplayedMessages)
    /\ DisplayedMessages[n].role = "assistant"
    /\ speech' = Append(speech, [pc |-> "awaiting", text |-> DisplayedMessages[n].content,
                                 call |-> [state |-> "pending"]])
    /\ UNCHANGED <<status, storage, chats, currentChatId, inputText, attachments,
                   isTyping, inflight, clock, alerts, generate, view>>

\* The remote speech call settles.
SpeechResolves(i, response) ==
    /\ speech[i].pc = "awaiting" /\ speech[i].call.state = "pending"
    /\ speech' = [speech EXCEPT ![i].call = [state |-> "fulfilled", value |-> response]]
    /\ UNCHANGED <<status, storage, chats, currentChatId, inputText, attachments,
                   isTyping, inflight, clock, alerts, generate, view>>

SpeechRejects(i) ==
    /\ speech[i].pc = "awaiting" /\ speech[i].call.state = "pending"
    /\ speech' = [speech EXCEPT ![i].call = [state |-> "rejected"]]
    /\ UNCHANGED <<status, storage, chats, currentChatId, inputText, attachments,
                   isTyping, inflight, clock, alerts, generate, view>>

\* speakText resumes after the await and ends.
SpeakEnds(i) ==
    /\ speech[i].pc = "awaiting" /\ speech[i].call.state # "pending"
    /\ speech' = [speech EXCEPT ![i] =
                    [text |-> speech[i].text, call |-> speech[i].call]
                        @@ SpeakOutcome(speech[i].call)]
    /\ UNCHANGED <<status, storage, chats, currentChatId, inputText, attachments,
                   isTyping, inflight, clock, alerts, generate, view>>

\* .then(bytes => { if (!bytes) return; ...play... }): the caller is done
\* with the invocation.
SpeechPlayed(i) ==
    /\ speech[i].pc = "returned"
    /\ speech' = SubSeq(speech, 1, i - 1) \o SubSeq(speech, i + 1, Len(speech))
    /\ UNCHANGED <<status, storage, chats, currentChatId, inputText, attachments,
                   isTyping, inflight, clock, alerts, generate, view>>

\* The App with its Voice buttons, in an environment with one session, no
\* attachment, and at most MaxSpeech speakText invocations at a time.
SpeechEnv ==
    /\ Len(chats) <= MaxSpeechChats
    /\ attachments = <<>>
    /\ Len(speech) <= MaxSpeech

SpeechNext ==
    /\ \/ Next
       \/ \E n \in 1..Len(DisplayedMessages) : SpeakText(n)
       \/ \E i \in 1..Len(speech) : \E response \in SpeechReplies : SpeechResolves(i, response)
       \/ \E i \in 1..Len(speech) : SpeechRejects(i)
       \/ \E i \in 1..Len(speech) : SpeakEnds(i)
       \/ \E i \in 1..Len(speech) : SpeechPlayed(i)
    /\ SpeechEnv'

SpeechSpec == Init /\ [][SpeechNext]_vars

-----------------------------------------------------------------------------
(* MathMarkdown: renderedContent                                            *)

Ch(s, i) == SubSeq(s, i, i)

\* s.startsWith(pat, i - 1)
StartsWithAt(s, i, pat) ==
    i + Len(pat) - 1 <= Len(s) /\ SubSeq(s, i, i + Len(pat) - 1) = pat

\* s.substring(n)
Substring(s, n) == SubSeq(s, n + 1, Len(s))

\* A text with, for every character, where it comes from: "t" for a
\* character of the content, "m" for a character put there by a math phase.
Plain(s) == [str |-> s, mask |-> [i \in 1..Len(s) |-> "t"]]

Math(s) == [str |-> s, mask |-> [i \in 1..Len(s) |-> "m"]]

Cat(p, q) == [str |-> p.str \o q.str, mask |-> p.mask \o q.mask]

\* The first of a set of positions; 0 when there is none.
FirstIn(S) == IF S = {} THEN 0 ELSE CHOOSE k \in S : \A j \in S : k <= j

\* \s*: the first position from i on that holds no white space
SkipSpace(s, i) ==
    LET k == FirstIn({j \in i..Len(s) : ~IsSpace(Ch(s, j))})
    IN  IF k = 0 THEN Len(s) + 1 ELSE k

\* katex.renderToString: the typeset markup, which carries the TeX source as
\* it was given in its annotation element.
KatexMarkup(text, isBlock) ==
    (IF isBlock THEN "<span class=\"katex-display\">" ELSE "<span class=\"katex\">")
        \o "<annotation>" \o text \o "</annotation></span>"

\* renderMath: the markup, or the text itself when katex throws.
RenderMath(text, isBlock, katex) ==
    IF katex = "throws" THEN text ELSE KatexMarkup(text, isBlock)

DisplayOpen == "<div class=\"katex-display-container\">"

DisplayClose == "</div>"

\* ([\s\S]*?)\s*\$\$ from e on: the first position at or after e from which
\* white space and then $$ follow; 0 when there is none.
BlockClose(s, e) ==
    FirstIn({j \in e..Len(s) : StartsWithAt(s, SkipSpace(s, j), "$$")})

\* /\$\$\s*([\s\S]*?)\s*\$\$/ matches at i
BlockMatches(s, i) ==
    StartsWithAt(s, i, "$$") /\ BlockClose(s, SkipSpace(s, i + 2)) # 0

BlockMath(s, i) ==
    SubSeq(s, SkipSpace(s, i + 2), BlockClose(s, SkipSpace(s, i + 2)) - 1)

\* the last position of the match
BlockEnd(s, i) == SkipSpace(s, BlockClose(s, SkipSpace(s, i + 2))) + 1

\* 1. processed.replace(/\$\$\s*([\s\S]*?)\s*\$\$/g, ...)
\* The text from position i to position j, with its mask.
Piece(p, i, j) == [str |-> SubSeq(p.str, i, j), mask |-> SubSeq(p.mask, i, j)]

RECURSIVE ReplaceBlocks(_, _, _)
ReplaceBlocks(p, i, katex) ==
    LET k == FirstIn({j \in i..Len(p.str) : BlockMatches(p.str, j)})
    IN  IF k = 0 THEN Piece(p, i, Len(p.str))
        ELSE Cat(Piece(p, i, k - 1),
                 Cat(Math(DisplayOpen \o RenderMath(BlockMath(p.str, k), TRUE, katex)
                            \o DisplayClose),
                     ReplaceBlocks(p, BlockEnd(p.str, k) + 1, katex)))

\* ([^\$\n]+?)\$ from k on, one character already taken: the position of
\* the closing $; 0 when a newline or the end comes first.
InlineClose(s, k) ==
    LET stop == FirstIn({j \in k..Len(s) : Ch(s, j) \in {"$", "\n"}})
    IN  IF stop # 0 /\ Ch(s, stop) = "$" THEN stop ELSE 0

\* /\$([^\$\n]+?)\$/ matches at i
InlineMatches(s, i) ==
    /\ Ch(s, i) = "$"
    /\ i + 1 <= Len(s)
    /\ Ch(s, i + 1) \notin {"$", "\n"}
    /\ InlineClose(s, i + 2) # 0

\* 2. processed.replace(/\$([^\$\n]+?)\$/g, ...)
RECURSIVE ReplaceInline(_, _, _)
ReplaceInline(p, i, katex) ==
    LET k == FirstIn({j \in i..Len(p.str) : InlineMatches(p.str, j)})
    IN  IF k = 0 THEN Piece(p, i, Len(p.str))
        ELSE Cat(Piece(p, i, k - 1),
                 Cat(Math(RenderMath(SubSeq(p.str, k + 1, InlineClose(p.str, k + 2) - 1),
                                     FALSE, katex)),
                     ReplaceInline(p, InlineClose(p.str, k + 2) + 1, katex)))

\* s.indexOf('\n') from i on, as a position; 0 when there is none
NewlineFrom(s, i) == FirstIn({j \in i..Len(s) : Ch(s, j) = "\n"})

\* processed.split('\n'), the masks split alongside
RECURSIVE SplitLines(_, _)
SplitLines(p, i) ==
    IF NewlineFrom(p.str, i) = 0
    THEN <<Piece(p, i, Len(p.str))>>
    ELSE <<Piece(p, i, NewlineFrom(p.str, i) - 1)>>
             \o SplitLines(p, NewlineFrom(p.str, i) + 1)

\* (.*?)\*\* from e on: the position of the closing **; 0 when there is none
BoldClose(s, e) == FirstIn({j \in e..Len(s) : StartsWithAt(s, j, "**")})

BoldMatches(s, i) == StartsWithAt(s, i, "**") /\ BoldClose(s, i + 2) # 0

\* lineHtml.replace(/\*\*(.*?)\*\*/g, '<strong>$1</strong>')
RECURSIVE ReplaceBold(_, _)
ReplaceBold(s, i) ==
    LET k == FirstIn({j \in i..Len(s) : BoldMatches(s, j)})
    IN  IF k = 0 THEN SubSeq(s, i, Len(s))
        ELSE SubSeq(s, i, k - 1)
               \o "<strong>" \o SubSeq(s, k + 2, BoldClose(s, k + 2) - 1) \o "</strong>"
               \o ReplaceBold(s, BoldClose(s, k + 2) + 2)

IsDigit(c) == c \in {"0", "1", "2", "3", "4", "5", "6", "7", "8", "9"}

SkipDigits(s, i) ==
    LET k == FirstIn({j \in i..Len(s) : ~IsDigit(Ch(s, j))})
    IN  IF k = 0 THEN Len(s) + 1 ELSE k

\* /^\d+\. /.test(s)
IsOrderedItem(s) == SkipDigits(s, 1) > 1 /\ StartsWithAt(s, SkipDigits(s, 1), ". ")

IsUnorderedItem(s) == StartsWithAt(s, 1, "* ") \/ StartsWithAt(s, 1, "- ")

\* line.indexOf(' ') + 1
SpaceFrom(s, i) == FirstIn({j \in i..Len(s) : Ch(s, j) = " "})

\* The element one line becomes.
LineElement(line) ==
    IF IsUnorderedItem(Trim(line))
    THEN [type |-> "li", list |-> "list-disc",
          html |-> Substring(Trim(ReplaceBold(line, 1)), 2)]
    ELSE IF IsOrderedItem(Trim(line))
    THEN [type |-> "li", list |-> "list-decimal",
          html |-> Substring(Trim(ReplaceBold(line, 1)), SpaceFrom(line, 1))]
    ELSE IF Trim(line) = ""
    THEN [type |-> "br"]
    ELSE [type |-> "p", html |-> ReplaceBold(line, 1)]

\* What renderedContent is for a content, with the intermediate texts:
\* null for an empty content, the content itself when katex is not loaded,
\* else the elements of the lines.
Rendering(content, katex) ==
    IF content = "" THEN [kind |-> "null"]
    ELSE IF katex = "absent" THEN [kind |-> "text", text |-> content]
    ELSE LET afterBlock == ReplaceBlocks(Plain(content), 1, katex)
             afterInline == ReplaceInline(afterBlock, 1, katex)
             lines == SplitLines(afterInline, 1)
         IN  [kind |-> "elements",
              afterBlock |-> afterBlock,
              afterInline |-> afterInline,
              elements |-> [n \in 1..Len(lines) |-> LineElement(lines[n].str)]]

\* Contents: every text of at most MaxContent characters over a small
\* alphabet, and some longer ones.
ContentAlphabet == {"$", "a", "*", " ", "\n"}

RECURSIVE TextsUpTo(_)
TextsUpTo(n) ==
    IF n = 0 THEN {""}
    ELSE TextsUpTo(n - 1) \cup {t \o c : t \in TextsUpTo(n - 1), c \in ContentAlphabet}

LongContents ==
    { "$$\\int_0^\\infty \\frac{\\sin x}{x}dx$$",
      "Solve: $x^2+5x+6=0$",
      "$$a\nb$$",
      "$$ a $$",
      "$$a$b$c$$",
      "$a**b**c$",
      "* **b** $x$",
      "- item",
      "12. item",
      "  2. item",
      "  * item" }

ViewContents == TextsUpTo(MaxContent) \cup LongContents

KatexStates == {"absent", "typesets", "throws"}

\* A MathMarkdown mounts with a content and renders it.
Render(content, katex) ==
    /\ view.pc = "unmounted"
    /\ view' = [pc |-> "rendered", content |-> content, katex |-> katex,
                rendered |-> Rendering(content, katex)]
    /\ UNCHANGED <<status, storage, chats, currentChatId, inputText, attachments,
                   isTyping, inflight, clock, alerts, generate, speech>>

RenderNext == \E content \in ViewContents : \E katex \in KatexStates : Render(content, katex)

RenderSpec == ServiceInit /\ [][RenderNext]_vars

\* The file input on its own: batches of files, some oversized, are chosen
\* again and again, and the pending attachments are cleared in between.
FilesNext ==
    \/ Mount
    \/ \E files \in FileBatches :
            Len(attachments) + Len(ReadFiles(files)) <= MaxIngested
                /\ HandleFileChange(files)
    \/ ClearAttachments

FilesSpec == Init /\ [][FilesNext]_vars

\* An environment with few sessions and few user messages in the store, in
\* which the user also types blank texts.
SmallEnv ==
    /\ Len(chats) <= MaxLiveChats
    /\ CountUserMessages(chats) <= MaxLiveExchanges

SubmitNext == (Next \/ \E t \in BlankTexts : SetInputText(t)) /\ SmallEnv'

SubmitSpec == Init /\ [][SubmitNext]_vars

-----------------------------------------------------------------------------
(* Properties *)

Last(s) == s[Len(s)]

IsPrefix(s, t) == Len(s) <= Len(t) /\ SubSeq(t, 1, Len(s)) = s

\* C1: whatever handlers have run since the store was loaded, currentChatId
\* is null or the id of a session that is in chats.
C1_ActiveSessionIsLive ==
    status = "running" => (currentChatId = Null \/ currentChatId \in ChatIds)

\* The target of the pending submit was deleted and another session was
\* selected in its place.
C1_Witness ==
    /\ inflight # <<>>
    /\ inflight[1].activeChatId \notin ChatIds
    /\ currentChatId \in ChatIds

\* C2: at most one sendMessage is suspended at its await, isTyping is true
\* exactly while one is, and while isTyping is true no step adds a user
\* message to any session or starts another remote call.
C2_SingleSubmitInFlight ==
    /\ [](Len(inflight) <= 1 /\ (isTyping <=> inflight # <<>>))
    /\ [][isTyping => /\ Len(inflight') <= Len(inflight)
                      /\ CountUserMessages(chats') <= CountUserMessages(chats)]_vars

\* A submit is pending while the input holds a text that would be accepted
\* when idle.
C2_Witness ==
    /\ isTyping
    /\ Len(inflight) = 1
    /\ Trim(inputText) # ""
    /\ HasRoom(chats, currentChatId)

\* C7: an accepted submit takes isTyping from false to true, and whenever
\* isTyping is true it is eventually false again, whether the call
\* returned or failed.
C7_TypingEventuallyIdle ==
    /\ [][Len(inflight') > Len(inflight) => (~isTyping /\ isTyping')]_vars
    /\ [][Len(inflight') < Len(inflight) => ~isTyping']_vars
    /\ (isTyping ~> ~isTyping)

\* A failed call was handled and the controller is idle with a new input
\* ready to be submitted.
C7_Witness ==
    /\ ~isTyping
    /\ inflight = <<>>
    /\ \E i \in 1..Len(chats) :
          /\ chats[i].messages # <<>>
          /\ Last(chats[i].messages).content = ErrorContent
    /\ Trim(inputText) # ""

\* Session c2 of the next state is session c1 of this state with one
\* message added at the end.
Grew(c1, c2) ==
    /\ c1.id = c2.id
    /\ Len(c2.messages) = Len(c1.messages) + 1
    /\ IsPrefix(c1.messages, c2.messages)

\* Some session of this state has the id and exactly the messages of c2.
Known(c2) ==
    \E i \in 1..Len(chats) : chats[i].id = c2.id /\ chats[i].messages = c2.messages

\* c2 received a message in this step.
Appended(c2) == ~Known(c2) /\ \E i \in 1..Len(chats) : Grew(chats[i], c2)

\* C3: in every step each session of the store is either new (empty, or
\* holding just the user message of the submit that created it) or a
\* session of the state before, unchanged or with one message added at the
\* end (nothing reordered, removed or changed); the step that starts a call
\* has already appended its user message at the end of the target session,
\* and an assistant message is appended only by the later step that ends
\* that call.
C3_AppendOnlyUserBeforeReply ==
    [][status = "running" =>
        /\ \A j \in 1..Len(chats') :
              \/ chats'[j].messages = <<>>
              \/ Known(chats'[j])
              \/ \E i \in 1..Len(chats) : Grew(chats[i], chats'[j])
              \/ /\ Len(inflight') > Len(inflight)
                 /\ chats'[j].messages = <<Last(inflight').userMessage>>
        /\ Len(inflight') > Len(inflight) =>
              /\ \E j \in 1..Len(chats') :
                    /\ chats'[j].id = Last(inflight').activeChatId
                    /\ chats'[j].messages # <<>>
                    /\ Last(chats'[j].messages) = Last(inflight').userMessage
              /\ \A j \in 1..Len(chats') :
                    Appended(chats'[j]) =>
                        Last(chats'[j].messages) = Last(inflight').userMessage
        /\ Len(inflight') <= Len(inflight) =>
              \A j \in 1..Len(chats') :
                  Appended(chats'[j]) =>
                      /\ Len(inflight') < Len(inflight)
                      /\ Last(chats'[j].messages).role = "assistant"
                      /\ \E k \in 1..Len(inflight) :
                            inflight[k].activeChatId = chats'[j].id
    ]_vars

\* A session holds two exchanges: a user message, its reply, a second user
\* message appended after them, and its reply.
C3_Witness ==
    \E i \in 1..Len(chats) :
        /\ Len(chats[i].messages) = 4
        /\ chats[i].messages[1].role = "user"
        /\ chats[i].messages[2].role = "assistant"
        /\ chats[i].messages[3].role = "user"
        /\ chats[i].messages[4].role = "assistant"

\* C4: a step that removes the active session leaves currentChatId null when
\* no session remains and otherwise on a remaining session whose
\* lastModified no remaining session exceeds; a step that removes another
\* session leaves currentChatId as it was.
C4_DeleteReselectsMostRecent ==
    [][(status = "running" /\ Len(chats') < Len(chats)) =>
        IF currentChatId \in ChatIds'
        THEN currentChatId' = currentChatId
        ELSE IF chats' = <<>>
             THEN currentChatId' = Null
             ELSE \E j \in 1..Len(chats') :
                    /\ chats'[j].id = currentChatId'
                    /\ \A k \in 1..Len(chats') :
                          chats'[k].lastModified <= chats'[j].lastModified
    ]_vars

\* The target of the pending submit was deleted while two sessions of
\* different age remained, and the more recently modified one is active.
C4_Witness ==
    /\ inflight # <<>>
    /\ inflight[1].activeChatId \notin ChatIds
    /\ Len(chats) = 2
    /\ chats[1].lastModified > chats[2].lastModified
    /\ chats[1].createdAt < chats[2].createdAt
    /\ currentChatId = chats[1].id

\* C5 as claimed: mounting over storage that is absent or is not a list of
\* sessions ends running with an empty store.
C5_MalformedStorageYieldsEmptyStore ==
    [][(status = "booting" /\ ~IsSessionList(storage)) =>
        (status' = "running" /\ chats' = <<>> /\ currentChatId' = Null)]_vars

\* C6: when sendMessage resumes from a rejected call, every session that has
\* the target id and holds the submission's user message gets exactly one
\* message appended at its end, an assistant message with the fixed error
\* text; no other message appears anywhere, no session is added or removed,
\* and the controller is running and idle afterwards.
C6_FailureAppendsOneFallback ==
    [][(status = "running" /\ Len(inflight') < Len(inflight)) =>
        \A k \in 1..Len(inflight) :
            (inflight[k].promise.state = "rejected" /\ inflight' = Settled(k)) =>
                /\ status' = "running"
                /\ ~isTyping'
                /\ Len(chats') = Len(chats)
                /\ \A i \in 1..Len(chats) :
                      (/\ chats[i].id = inflight[k].activeChatId
                       /\ \E n \in 1..Len(chats[i].messages) :
                              chats[i].messages[n] = inflight[k].userMessage) =>
                          \E j \in 1..Len(chats') :
                              /\ Grew(chats[i], chats'[j])
                              /\ Last(chats'[j].messages).role = "assistant"
                              /\ Last(chats'[j].messages).content = ErrorContent
                /\ \A j \in 1..Len(chats') :
                      \/ Known(chats'[j])
                      \/ /\ chats'[j].id = inflight[k].activeChatId
                         /\ \E i \in 1..Len(chats) : Grew(chats[i], chats'[j])
    ]_vars

\* The session that received the user message ends with the fallback reply
\* right after it, and the controller is idle.
C6_Witness ==
    /\ status = "running"
    /\ ~isTyping
    /\ \E i \in 1..Len(chats) :
          /\ Len(chats[i].messages) = 2
          /\ chats[i].messages[1].role = "user"
          /\ chats[i].messages[2].content = ErrorContent

\* The sessions read back from storage: same ids, same messages in the same
\* order, same attachment data.
SameMessage(m1, m2) ==
    /\ m1.id = m2.id
    /\ m1.role = m2.role
    /\ m1.content = m2.content
    /\ m1.timestamp = m2.timestamp
    /\ ("attachments" \in DOMAIN m1) = ("attachments" \in DOMAIN m2)
    /\ "attachments" \in DOMAIN m1 =>
          /\ Len(m1.attachments) = Len(m2.attachments)
          /\ \A a \in 1..Len(m1.attachments) :
                m1.attachments[a].data = m2.attachments[a].data

SameSessions(cs1, cs2) ==
    /\ Len(cs1) = Len(cs2)
    /\ \A i \in 1..Len(cs1) :
          /\ cs1[i].id = cs2[i].id
          /\ Len(cs1[i].messages) = Len(cs2[i].messages)
          /\ \A n \in 1..Len(cs1[i].messages) :
                SameMessage(cs1[i].messages[n], cs2[i].messages[n])

\* C8: while the page runs, localStorage holds a session list, and loading
\* it the way the initialiser does yields the sessions that are in memory.
C8_PersistedStoreRoundTrips ==
    status = "running" =>
        /\ ~MountThrows(storage)
        /\ SameSessions(InitialChats(storage), chats)

\* A session with an attachment-carrying user message and its reply is in
\* memory and in storage.
C8_Witness ==
    /\ status = "running"
    /\ \E i \in 1..Len(chats) :
          /\ Len(chats[i].messages) = 2
          /\ chats[i].messages[1].attachments # <<>>
          /\ chats[i].messages[2].role = "assistant"
    /\ Len(chats) = 2

\* C9 as claimed, on sessions whose first user message has text: a session
\* whose first two messages are a user message and an assistant reply is
\* titled with the first 35 characters of that user message.
C9_TitleIsFirstUserMessagePrefix ==
    \A i \in 1..Len(chats) :
        (/\ Len(chats[i].messages) >= 2
         /\ chats[i].messages[1].role = "user"
         /\ chats[i].messages[1].content # ""
         /\ chats[i].messages[2].role = "assistant") =>
            chats[i].title = Slice(chats[i].messages[1].content, TitleLength)

\* C10 as claimed: a session's lastModified is never older than the
\* timestamp of its last message.
C10_LastModifiedCoversLastMessage ==
    \A i \in 1..Len(chats) :
        chats[i].messages # <<>> =>
            chats[i].lastModified >= Last(chats[i].messages).timestamp

\* C11 as claimed: no two sessions of the store have the same id.
C11_SessionIdsUnique ==
    \A i \in 1..Len(chats) : \A j \in 1..Len(chats) :
        chats[i].id = chats[j].id => i = j

\* The store has room, within the bounds of the model, for the submit of the
\* current input.
SubmitHasRoom ==
    IF currentChatId = Null
    THEN Len(chats) < MaxChats /\ TotalMessages(chats) + 2 <= 2 * MaxExchanges
    ELSE HasRoom(chats, currentChatId)

\* C12: a sendMessage step taken with a blank text (empty or white space
\* only) and no attachment changes nothing: no session, no message, no
\* remote call, isTyping as it was; with a blank text and at least one
\* attachment, when idle, sendMessage is accepted: it can and does append
\* the user message (to every session carrying the active id), start the
\* remote call and set isTyping.
C12_BlankSubmitIsNoOp ==
    /\ [][(SendMessage /\ Trim(inputText) = "" /\ attachments = <<>>) =>
            /\ chats' = chats
            /\ inflight' = inflight
            /\ isTyping' = isTyping
            /\ currentChatId' = currentChatId]_vars
    /\ [][(SendMessage /\ Trim(inputText) = "" /\ attachments # <<>> /\ ~isTyping) =>
            /\ Len(inflight') = Len(inflight) + 1
            /\ isTyping'
            /\ CountUserMessages(chats') > CountUserMessages(chats)]_vars
    /\ [](( /\ status = "running"
            /\ Trim(inputText) = "" /\ attachments # <<>> /\ ~isTyping
            /\ SubmitHasRoom) => ENABLED (SendMessage /\ isTyping'))

\* The input holds white space only and no attachment while idle, and an
\* earlier submit of a blank text with an attachment has been answered.
C12_Witness ==
    /\ status = "running"
    /\ ~isTyping
    /\ inputText # "" /\ Trim(inputText) = ""
    /\ attachments = <<>>
    /\ \E i \in 1..Len(chats) :
          /\ Len(chats[i].messages) = 2
          /\ Trim(chats[i].messages[1].content) = ""
          /\ chats[i].messages[1].attachments # <<>>

\* The files of a batch that are within the size limit, in their order.
WithinLimit(files) == SelectSeq(files, LAMBDA f : f.size <= FileSizeLimit)

\* C13: a handleFileChange step over a batch of files raises one alert for
\* each file larger than the limit and appends one attachment for each file
\* of at most the limit, these in the order they have in the batch, with
\* the name and type of the file and its content as data; what was pending
\* before stays in front.
C13_OversizedDroppedIndividually ==
    [][\A files \in FileBatches :
        HandleFileChange(files) =>
            /\ alerts' = Len(files) - Len(WithinLimit(files))
            /\ Len(attachments') = Len(attachments) + Len(WithinLimit(files))
            /\ SubSeq(attachments', 1, Len(attachments)) = attachments
            /\ \A k \in 1..Len(WithinLimit(files)) :
                  /\ attachments'[Len(attachments) + k].name = WithinLimit(files)[k].name
                  /\ attachments'[Len(attachments) + k].type = WithinLimit(files)[k].type
                  /\ attachments'[Len(attachments) + k].data = DataUrl(WithinLimit(files)[k])
    ]_vars

\* One oversized file was dropped with its alert while two files of the same
\* selection, one of them of exactly the limit, are pending in their order.
C13_Witness ==
    /\ alerts = 1
    /\ Len(attachments) = 2
    /\ attachments[1].name = LimitFile.name
    /\ attachments[2].name = SmallFile.name

\* The parts of the reply the returned result was made from.
ReturnedParts == CandidateParts(generate.call.value)

\* A part flagged as reasoning, a part of plain text, and the text a
\* reasoning part carries (in text when the flag is beside it, else in
\* thought itself).
IsReasoningPart(p) == Truthy(Prop(p, "thought"))

IsPlainTextPart(p) == Truthy(Prop(p, "text")) /\ ~IsReasoningPart(p)

ReasoningText(p) == IF "text" \in DOMAIN p THEN p.text ELSE p.thought

\* C14 as claimed: when the reply has exactly one reasoning part and one
\* plain-text part, in either order, the result's text is the plain-text
\* part's text and its thinking is the reasoning part's text.
C14_ReasoningAndAnswerSeparated ==
    (generate.pc = "returned" /\ Len(ReturnedParts) = 2) =>
        \A i \in 1..2 : \A j \in 1..2 :
            (IsPlainTextPart(ReturnedParts[i]) /\ IsReasoningPart(ReturnedParts[j])) =>
                /\ generate.result.text = ReturnedParts[i].text
                /\ generate.result.thinking = ReasoningText(ReturnedParts[j])

\* The reply has no part with a text or a reasoning flag, only the
\* top-level text.
OnlyTopLevelText(response) ==
    /\ Truthy(response.text)
    /\ \A i \in 1..Len(CandidateParts(response)) :
          /\ ~Truthy(Prop(CandidateParts(response)[i], "text"))
          /\ ~Truthy(Prop(CandidateParts(response)[i], "thought"))

\* C15 as claimed: from a reply with only the top-level text the result is
\* that text with an undefined thinking, and the assistant message made of
\* it is stored without a thinking property.
C15_PlainReplyHasUndefinedTrace ==
    (generate.pc = "returned" /\ OnlyTopLevelText(generate.call.value)) =>
        /\ generate.result.text = generate.call.value.text
        /\ generate.result.thinking = Undefined
        /\ "thinking" \notin DOMAIN JsonOfMessage(AssistantMessage(generate.result, clock))

\* C15 as amended: from a reply with only the top-level text the result is
\* that text with the empty string as thinking, and the assistant message
\* made of it is stored with an empty thinking, which is not truthy (the
\* message shows no reasoning).
C15_PlainReplyHasEmptyTrace ==
    (generate.pc = "returned" /\ OnlyTopLevelText(generate.call.value)) =>
        /\ generate.result.text = generate.call.value.text
        /\ generate.result.thinking = ""
        /\ JsonOfMessage(AssistantMessage(generate.result, clock)).thinking = ""
        /\ ~Truthy(AssistantMessage(generate.result, clock).thinking)

\* generateMathResponse returned from a reply without candidates that has
\* the top-level text.
C15_Witness ==
    /\ generate.pc = "returned"
    /\ generate.call.value.candidates = <<>>
    /\ generate.call.value.text = "top"
    /\ generate.history # <<>>

\* The payload of an attachment without its data-URI prefix: what follows
\* the first comma of a data: URI, the data itself otherwise.
HasDataUriPrefix(data) ==
    Len(data) >= 5 /\ SubSeq(data, 1, 5) = "data:" /\ CommaFrom(data, 1) > 0

WithoutDataUriPrefix(data) ==
    IF HasDataUriPrefix(data) THEN SubSeq(data, CommaFrom(data, 1) + 1, Len(data)) ELSE data

\* C16 as claimed: the request holds one entry per history message, in
\* order, with role model for an assistant message and user for any other,
\* each with the message's content as its text, and then one user entry whose
\* parts are the new text followed by one inline-data part per attachment,
\* in order, with the attachment's type and its data without the data-URI
\* prefix.
C16_RequestAssembly ==
    generate.pc # "idle" =>
        LET contents == generate.requests[1].contents
            history == generate.history
            atts == generate.attachments
            turn == contents[Len(contents)]
        IN  /\ Len(contents) = Len(history) + 1
            /\ \A i \in 1..Len(history) :
                  /\ contents[i].role =
                        (IF history[i].role = "assistant" THEN "model" ELSE "user")
                  /\ contents[i].parts = <<[text |-> history[i].content]>>
            /\ turn.role = "user"
            /\ Len(turn.parts) = 1 + Len(atts)
            /\ turn.parts[1] = [text |-> generate.currentMessage]
            /\ \A k \in 1..Len(atts) :
                  /\ turn.parts[1 + k].inlineData.mimeType = atts[k].type
                  /\ turn.parts[1 + k].inlineData.data = WithoutDataUriPrefix(atts[k].data)

\* C17: a generateMathResponse that was called has made exactly one remote
\* call, whatever came of it; it returns a result only from a call that was
\* answered, and once the call has failed it ends by throwing, with no
\* result and no further call.
C17_OneCallFailurePropagated ==
    /\ [](generate.pc # "idle" => Len(generate.requests) = 1)
    /\ [](generate.pc = "returned" => generate.call.state = "fulfilled")
    /\ [](generate.pc = "thrown" =>
            generate.call.state = "rejected" /\ "result" \notin DOMAIN generate)
    /\ [][(generate.pc = "awaiting" /\ generate.call.state = "rejected") =>
            (generate'.pc = "thrown" /\ generate'.requests = generate.requests)]_vars

\* The remote call failed and generateMathResponse has thrown, after a
\* request that carried a history and an attachment.
C17_Witness ==
    /\ generate.pc = "thrown"
    /\ generate.call.state = "rejected"
    /\ Len(generate.requests) = 1
    /\ generate.history # <<>>
    /\ generate.attachments # <<>>

\* The bytes of the audio payloads of the model, decoded by hand.
KnownAudio(data) ==
    IF data = "QUJD" THEN <<65, 66, 67>>
    ELSE IF data = "QUI=" THEN <<65, 66>>
    ELSE <<>>

\* An assistant message is on display (its Voice button can be clicked).
VoiceButtonShown ==
    \E n \in 1..Len(DisplayedMessages) : DisplayedMessages[n].role = "assistant"

\* C18: a speakText invocation never ends by throwing; it ends with null
\* when the call failed, with null when the reply has no audio data, and
\* otherwise with the bytes the data decodes to (null when the data is not
\* base64); its steps change neither isTyping nor the sessions, their
\* storage, the active session or the pending submit, and the Voice button
\* of a displayed assistant message starts one also while isTyping is true.
C18_SpeakNeverFails ==
    /\ [](\A i \in 1..Len(speech) :
            /\ speech[i].pc \in {"awaiting", "returned"}
            /\ speech[i].pc = "returned" =>
                  IF speech[i].call.state = "rejected"
                  THEN speech[i].result = NoAudio
                  ELSE IF ~Truthy(AudioData(speech[i].call.value))
                  THEN speech[i].result = NoAudio
                  ELSE IF AudioData(speech[i].call.value) \in {"QUJD", "QUI="}
                  THEN speech[i].result =
                          [kind |-> "bytes",
                           bytes |-> KnownAudio(AudioData(speech[i].call.value))]
                  ELSE speech[i].result = NoAudio)
    /\ [][speech' # speech =>
            /\ isTyping' = isTyping
            /\ chats' = chats
            /\ storage' = storage
            /\ currentChatId' = currentChatId
            /\ inflight' = inflight
            /\ status' = status]_vars
    /\ []((status = "running" /\ VoiceButtonShown) =>
            ENABLED (\E n \in 1..Len(DisplayedMessages) : SpeakText(n)))

\* While a submit is pending (isTyping), a speakText started on an earlier
\* reply has ended with decoded audio.
C18_Witness ==
    /\ isTyping
    /\ inflight # <<>>
    /\ speech # <<>>
    /\ speech[1].pc = "returned"
    /\ speech[1].result = [kind |-> "bytes", bytes |-> <<65, 66>>]

\* The matches the global inline-math replace finds in a text, scanning
\* from position i: their first positions.
RECURSIVE InlineScan(_, _)
InlineScan(s, i) ==
    LET k == FirstIn({j \in i..Len(s) : InlineMatches(s, j)})
    IN  IF k = 0 THEN {} ELSE {k} \cup InlineScan(s, InlineClose(s, k + 2) + 1)

\* The matches the global bold replace finds in a line.
RECURSIVE BoldScan(_, _)
BoldScan(s, i) ==
    LET k == FirstIn({j \in i..Len(s) : BoldMatches(s, j)})
    IN  IF k = 0 THEN {} ELSE {k} \cup BoldScan(s, BoldClose(s, k + 2) + 2)

\* Some character from position i to position j was put there by a math
\* phase.
TouchesMath(p, i, j) == \E n \in i..j : p.mask[n] = "m"

\* The inline-math pass matches inside the output of the block-math pass.
InlineRescansBlock(r) ==
    \E k \in InlineScan(r.afterBlock.str, 1) :
        TouchesMath(r.afterBlock, k, InlineClose(r.afterBlock.str, k + 2))

\* The line pass splits the output of a math phase at a newline.
LineSplitsMath(r) ==
    \E n \in 1..Len(r.afterInline.str) :
        Ch(r.afterInline.str, n) = "\n" /\ r.afterInline.mask[n] = "m"

\* The bold rule matches inside the output of a math phase.
BoldRescansMath(r) ==
    \E n \in 1..Len(SplitLines(r.afterInline, 1)) :
        LET line == SplitLines(r.afterInline, 1)[n]
        IN  \E k \in BoldScan(line.str, 1) :
                TouchesMath(line, k, BoldClose(line.str, k + 2) + 1)

\* The list rule takes the output of a math phase for a list marker.
ListRescansMath(r) ==
    \E n \in 1..Len(SplitLines(r.afterInline, 1)) :
        LET line == SplitLines(r.afterInline, 1)[n]
        IN  /\ IsUnorderedItem(Trim(line.str)) \/ IsOrderedItem(Trim(line.str))
            /\ line.mask[SkipSpace(line.str, 1)] = "m"

\* C19 as claimed: in a rendering with katex loaded, the inline-math pass
\* matches nothing inside block-math output, and the line pass applies no
\* line split, no bold rule and no list rule to the output of a math phase.
C19_MathNeverRescanned ==
    (view.pc = "rendered" /\ view.rendered.kind = "elements") =>
        /\ ~InlineRescansBlock(view.rendered)
        /\ ~LineSplitsMath(view.rendered)
        /\ ~BoldRescansMath(view.rendered)
        /\ ~ListRescansMath(view.rendered)

\* The content is one $$...$$ block and nothing else.
IsOneBlock(content) == BlockMatches(content, 1) /\ BlockEnd(content, 1) = Len(content)

\* An element that holds one display-math container and nothing else.
IsDisplayBlock(el) ==
    /\ "html" \in DOMAIN el
    /\ StartsWithAt(el.html, 1, DisplayOpen)
    /\ StartsWithAt(el.html, Len(el.html) - Len(DisplayClose) + 1, DisplayClose)
    /\ \A n \in 2..Len(el.html) : ~StartsWithAt(el.html, n, DisplayOpen)

\* C20 as claimed: with katex loaded, a content that is one $$...$$ block
\* and nothing else renders as exactly one element, which holds the
\* display-math container and nothing else.
C20_SingleBlockIsOneDisplayMath ==
    (view.pc = "rendered" /\ view.katex # "absent" /\ IsOneBlock(view.content)) =>
        /\ Len(view.rendered.elements) = 1
        /\ IsDisplayBlock(view.rendered.elements[1])


\* The text of a line ready for display: bold applied, outer white space
\* removed.
LineHtml(line) == Trim(ReplaceBold(line, 1))

\* Length of the ordered marker of a trimmed line: its digits, the dot and
\* the space.
OrderedMarkerLength(t) == SkipDigits(t, 1) + 1

\* C21 as claimed: every line of a rendered content that, trimmed, starts
\* with "* " or "- ", or with digits and ". ", is a list item of the matching
\* kind whose content is the line's text after the whole marker and nothing
\* else removed, with or without leading white space.
C21_ListItemIsTextAfterMarker ==
    (view.pc = "rendered" /\ view.rendered.kind = "elements") =>
        LET lines == SplitLines(view.rendered.afterInline, 1)
        IN  \A n \in 1..Len(lines) :
                LET t == Trim(lines[n].str)
                    e == view.rendered.elements[n]
                IN  /\ IsUnorderedItem(t) =>
                            /\ e.type = "li"
                            /\ e.list = "list-disc"
                            /\ e.html = Substring(LineHtml(lines[n].str), 2)
                    /\ (~IsUnorderedItem(t) /\ IsOrderedItem(t)) =>
                            /\ e.type = "li"
                            /\ e.list = "list-decimal"
                            /\ e.html = Substring(LineHtml(lines[n].str),
                                                  OrderedMarkerLength(t))


\* The roles of a message sequence alternate, starting with a user message.
Alternates(messages) ==
    \A k \in 1..Len(messages) :
        messages[k].role = IF k % 2 = 1 THEN "user" ELSE "assistant"

\* The positions of chats whose session ends with a user message.
EndingWithUser ==
    {i \in 1..Len(chats) :
        chats[i].messages # <<>> /\ Last(chats[i].messages).role = "user"}

AllAlternate == \A i \in 1..Len(chats) : Alternates(chats[i].messages)

IdleEndsAnswered == ~isTyping => EndingWithUser = {}

BusyOneUnanswered == isTyping => Cardinality(EndingWithUser) <= 1

\* C22 as claimed: in every state each session's messages alternate user,
\* assistant, ... from a user message; when isTyping is false every session
\* is empty or ends with an assistant message; while isTyping is true at
\* most one session ends with a user message.
C22_SessionsAlternate ==
    /\ AllAlternate
    /\ IdleEndsAnswered
    /\ BusyOneUnanswered


\* The session is the one the pending submission's user message was appended
\* to: no message is appended to any session while a submission is pending,
\* so that message is still the session's last one.
Received(chat, submission) ==
    chat.messages # <<>> /\ Last(chat.messages) = submission.userMessage

\* after is before with one assistant message appended.
ReplyAppended(before, after) ==
    /\ after.id = before.id
    /\ Len(after.messages) = Len(before.messages) + 1
    /\ SubSeq(after.messages, 1, Len(before.messages)) = before.messages
    /\ Last(after.messages).role = "assistant"

\* Across the step that ends the submission, the store keeps its sessions
\* (in some order): those that received the submission's user message have
\* the reply appended, every other session is as it was, none is added.
ReplyOnlyToTarget(submission) ==
    /\ Len(chats') = Len(chats)
    /\ \E f \in Permutations(1..Len(chats)) :
          \A j \in 1..Len(chats) :
              IF Received(chats[j], submission)
              THEN ReplyAppended(chats[j], chats'[f[j]])
              ELSE chats'[f[j]] = chats[j]

\* C23 as claimed: the step of sendMessage that appends the reply (answer or
\* fallback) of a submission appends it only to the session that received
\* the submission's user message, whatever was selected, created or deleted
\* meanwhile; every other session is unchanged, and when the target was
\* deleted nothing is appended and no session is created.
C23_ReplyOnlyToSubmissionSession ==
    [][\A i \in 1..Len(inflight) :
            (Succeed(i) \/ Fail(i)) => ReplyOnlyToTarget(inflight[i])]_vars

====
